---------------------------- MODULE Spec2Model ----------------------------
(***************************************************************************)
(* A model of WTC_toolbox/controller.py: the Controller tuning engine      *)
(* (Controller.__init__, Controller.tune_controller), the peak-shaving     *)
(* block (ControllerBlocks.peak_shaving), the gain synthesis               *)
(* (ControllerTypes.second_order_PI) and the tables of the parameter file  *)
(* (FileProcessing.write_param_file).                                      *)
(*                                                                         *)
(* Numbers.  The program computes in double precision.  The model computes *)
(* in exact rational arithmetic: a real is a record [n, d] in lowest terms *)
(* with d > 0; d = 0 stands for the non-finite doubles (n = 1: inf,        *)
(* n = -1: -inf, n = 0: nan) that numpy produces on a division by zero.    *)
(* Wind speeds are integers in units of 0.1 m/s, so that the 0.5 m/s grid  *)
(* step is 5 and speeds off the grid (11.4 m/s = 114) exist.               *)
(***************************************************************************)
EXTENDS Integers, Sequences, FiniteSets, TLC

VARIABLES
    pc,        \* where the calling script is: "start", "constructed",
               \* "init_error", "tuned", "tune_error", "written",
               \* "write_error", "pi_called"
    params,    \* the controller_params dictionary handed to Controller()
    ctrl,      \* the Controller object: its attributes
    turbine,   \* the turbine object handed to the latest tune_controller
    gs,        \* a stand-alone ControllerTypes object
    piArgs,    \* the arguments of the latest second_order_PI call on gs
    runs,      \* how many tune_controller calls on ctrl have returned
    file       \* the parameter file of write_param_file: its table lines

vars == <<pc, params, ctrl, turbine, gs, piArgs, runs, file>>

---------------------------------------------------------------------------
(* Bounds of the model. *)

\* lowest cut-in wind speed tried (0.1 m/s)
MinV == 5
\* highest cut-out wind speed tried (0.1 m/s)
MaxVmax == 30
\* longest input sequence of a stand-alone second_order_PI call
MaxPILen == 3
\* most tuning runs the calling script completes on one Controller
MaxRuns == 2

---------------------------------------------------------------------------
(* Exact rational arithmetic standing for the program's float arithmetic. *)

Abs(x) == IF x < 0 THEN -x ELSE x

Sgn(x) == IF x < 0 THEN -1 ELSE IF x > 0 THEN 1 ELSE 0

RECURSIVE GCD(_, _)
GCD(a, b) == IF b = 0 THEN a ELSE GCD(b, a % b)

\* n/d, for d # 0, divided through by g = gcd(|n|, |d|)
Reduced(n, d, g) == [n |-> Sgn(d) * (n \div g), d |-> Abs(d) \div g]

\* n/d in lowest terms, the sign carried by the numerator
Rat(n, d) ==
    IF d = 0 THEN [n |-> Sgn(n), d |-> 0]
    ELSE Reduced(n, d, GCD(Abs(n), Abs(d)))

RInt(k) == [n |-> k, d |-> 1]

Zero == RInt(0)

One == RInt(1)

IsFinite(a) == a.d # 0

RNeg(a) == [n |-> -a.n, d |-> a.d]

\* a + b over the common denominator a.d*b.d/g, g = gcd(a.d, b.d)
AddOver(a, b, g) ==
    Rat(a.n * (b.d \div g) + b.n * (a.d \div g), (a.d \div g) * b.d)

\* a + b, for finite operands
RAdd(a, b) == AddOver(a, b, GCD(a.d, b.d))

RSub(a, b) == RAdd(a, RNeg(b))

\* a * b with the common factors g1 = gcd(|a.n|, b.d) and g2 = gcd(|b.n|, a.d)
\* cancelled first
MulCancelled(a, b, g1, g2) ==
    Rat((a.n \div g1) * (b.n \div g2), (a.d \div g2) * (b.d \div g1))

\* a * b; inf * 0 is nan, as for doubles
RMul(a, b) ==
    IF a.d = 0 \/ b.d = 0 THEN [n |-> Sgn(a.n) * Sgn(b.n), d |-> 0]
    ELSE MulCancelled(a, b, GCD(Abs(a.n), b.d), GCD(Abs(b.n), a.d))

\* 1 / a; 1/0 is inf, as numpy computes it (with a warning, no exception)
RInv(a) ==
    IF a.d = 0 THEN (IF a.n = 0 THEN a ELSE Zero)
    ELSE IF a.n = 0 THEN [n |-> 1, d |-> 0]
    ELSE [n |-> Sgn(a.n) * a.d, d |-> Abs(a.n)]

RDiv(a, b) == RMul(a, RInv(b))

\* a < b, for finite operands
RLt(a, b) == a.n * b.d < b.n * a.d

RLe(a, b) == a.n * b.d <= b.n * a.d

RMin(a, b) == IF RLt(b, a) THEN b ELSE a

RMax(a, b) == IF RLt(a, b) THEN b ELSE a

RPow(a, k) == IF k = 2 THEN RMul(a, a) ELSE RMul(RMul(a, a), a)

\* the floor of a finite rational
RFloor(a) == a.n \div a.d

---------------------------------------------------------------------------
(* numpy and scipy functions the program calls. *)

\* the sequence f[1], ..., f[n] written out element by element
RECURSIVE SeqUpTo(_, _)
SeqUpTo(f, n) == IF n = 0 THEN <<>> ELSE Append(SeqUpTo(f, n - 1), f[n])

MkSeq(f) == SeqUpTo(f, Cardinality(DOMAIN f))

RECURSIVE SeqSum(_)
SeqSum(s) == IF s = <<>> THEN Zero ELSE RAdd(Head(s), SeqSum(Tail(s)))

\* np.min, np.max of a non-empty sequence of rationals
NpMin(s) == CHOOSE x \in {s[i] : i \in DOMAIN s} : \A i \in DOMAIN s : RLe(x, s[i])

NpMax(s) == CHOOSE x \in {s[i] : i \in DOMAIN s} : \A i \in DOMAIN s : RLe(s[i], x)

\* np.clip(x, lo, hi) = minimum(maximum(x, lo), hi)
NpClip(x, lo, hi) == RMin(RMax(x, lo), hi)

\* ceil(a / b) for b > 0
CeilDiv(a, b) == -((-a) \div b)

\* len(np.arange(start, stop, step)) = max(ceil((stop - start)/step), 0)
ArangeLen(start, stop, step) ==
    IF stop > start THEN CeilDiv(stop - start, step) ELSE 0

\* np.arange(start, stop, step): start + k*step for the k with
\* start + k*step < stop; stop itself is never generated
NpArange(start, stop, step) ==
    MkSeq([k \in 1..ArangeLen(start, stop, step) |-> start + (k - 1) * step])

\* a[i:j] of a sequence, i and j as Python gives them (0-based, j exclusive)
Slice(a, i, j) == MkSeq([k \in 1..(IF j > i THEN j - i ELSE 0) |-> a[i + k]])

\* np.ones(n) * x
OnesTimes(n, x) == MkSeq([k \in 1..n |-> x])

---------------------------------------------------------------------------
(* Python values of the controller_params dictionary. *)

PyNone == [t |-> "none"]

PyBool(b) == [t |-> "bool", b |-> b]

PyNum(r) == [t |-> "num", v |-> r]

\* a float literal 0.<digits>, for a literal too long for the model's integers
PyDec(digits) == [t |-> "dec", digits |-> digits]

\* bool(x): None, False and a zero number are false
Truthy(x) ==
    CASE x.t = "none" -> FALSE
      [] x.t = "bool" -> x.b
      [] x.t = "num"  -> x.v # Zero
      [] OTHER        -> \E i \in DOMAIN x.digits : x.digits[i] # 0

\* the float a configuration value stands for in arithmetic (True is 1.0)
AsReal(x) ==
    CASE x.t = "num"  -> x.v
      [] x.t = "bool" -> (IF x.b THEN One ELSE Zero)
      [] OTHER        -> Zero

\* np.pi, to the precision of the model
PiNum == 22

PiDen == 7

pi == Rat(PiNum, PiDen)

\* deg2rad = np.deg2rad(1)
deg2rad == RDiv(pi, RInt(180))

---------------------------------------------------------------------------
(* The performance surfaces of the turbine (WTC_toolbox/turbine.py, a      *)
(* collaborator of controller.py that is used here as a black box): a      *)
(* table of coefficients over the pitch grid and the tip-speed-ratio grid, *)
(* interpolated linearly in both directions, held at the ends of the grids *)
(* and returned at the resolution of the table.                            *)

\* the cell of an increasing grid that holds q: k with grid[k] <= q < grid[k+1],
\* the first or last cell for a q outside the grid
GridCell(grid, q) ==
    LET below == {k \in 1..(Len(grid) - 1) : RLe(RInt(grid[k]), q)}
    IN  IF below = {} THEN 1 ELSE CHOOSE k \in below : \A j \in below : j <= k

\* the linear interpolant of the integers vals over cell k of grid, at qc
CellInterp(grid, vals, k, qc) ==
    RAdd(RInt(vals[k]),
         RDiv(RMul(RInt(vals[k + 1] - vals[k]), RSub(qc, RInt(grid[k]))),
              RInt(grid[k + 1] - grid[k])))

\* the linear interpolant of the integers vals over grid at q
GridInterp(grid, vals, q) ==
    CellInterp(grid, vals, GridCell(grid, q),
               NpClip(q, RInt(grid[1]), RInt(grid[Len(grid)])))

\* surface.interp_surface(pitch_grid, tsr): the slice of the surface at tsr,
\* one coefficient for every tabulated pitch
InterpSlice(t, surf, tsr) ==
    MkSeq([p \in DOMAIN t.pitch_initial_rad |->
        RInt(RFloor(GridInterp(t.TSR_initial,
                               MkSeq([i \in DOMAIN t.TSR_initial |-> surf.tab[i][p]]),
                               tsr)))])

\* the slice sl of a surface interpolated along the pitch grid
InterpAlongPitch(t, sl, pitch) ==
    RInt(RFloor(GridInterp(t.pitch_initial_rad,
                           MkSeq([p \in DOMAIN sl |-> sl[p].n]), pitch)))

\* surface.interp_surface(pitch, tsr) for one pitch
InterpPoint(t, surf, pitch, tsr) ==
    InterpAlongPitch(t, InterpSlice(t, surf, tsr), pitch)

\* the differences of the table at cell (i, p), per grid index, in the pitch
\* and in the tip-speed-ratio direction
TableGradient(surf, p, i) ==
    [dCp_beta |-> RInt(surf.tab[i][p + 1] - surf.tab[i][p]),
     dCp_TSR  |-> RInt(surf.tab[i + 1][p] - surf.tab[i][p])]

\* surface.interp_gradient(pitch, tsr)
InterpGradient(t, surf, pitch, tsr) ==
    TableGradient(surf, GridCell(t.pitch_initial_rad, pitch),
                  GridCell(t.TSR_initial, tsr))

\* the order interp1d sorts x into: perm[k] is the index of the k-th smallest
SortPerm(x) ==
    MkSeq([k \in DOMAIN x |->
        CHOOSE i \in DOMAIN x :
            Cardinality({j \in DOMAIN x :
                RLt(x[j], x[i]) \/ (x[j] = x[i] /\ j < i)}) = k - 1])

\* y rearranged by perm
Permuted(y, perm) == MkSeq([k \in DOMAIN perm |-> y[perm[k]]])

\* np.searchsorted(xs, q): how many entries of xs lie below q
SearchSorted(xs, q) == Cardinality({k \in DOMAIN xs : RLt(xs[k], q)})

\* the upper end of the interval interp1d evaluates in: the searchsorted
\* index clipped to 1..len(xs)-1 (0-based), here 1-based
SegmentHi(n, cnt) ==
    (IF cnt < 1 THEN 1 ELSE IF cnt > n - 1 THEN n - 1 ELSE cnt) + 1

\* slope*(q - x_lo) + y_lo on the interval ending at hi
LinearSegment(xs, ys, hi, q) ==
    RAdd(RMul(RDiv(RSub(ys[hi], ys[hi - 1]), RSub(xs[hi], xs[hi - 1])),
              RSub(q, xs[hi - 1])),
         ys[hi - 1])

Interp1dSorted(xs, ys, q) ==
    LinearSegment(xs, ys, SegmentHi(Len(xs), SearchSorted(xs, q)), q)

\* scipy.interpolate.interp1d(x, y) evaluated at q, for q within the range of
\* x: x is sorted (y with it), searchsorted finds the interval, and the value
\* is slope*(q - x_lo) + y_lo
Interp1dLinear(x, y, q) ==
    Interp1dSorted(Permuted(x, SortPerm(x)), Permuted(y, SortPerm(x)), q)

\* interp1d with the default bounds_error: a query outside [min x, max x]
\* raises ValueError
Interp1dInBounds(x, q) == RLe(NpMin(x), q) /\ RLe(q, NpMax(x))

\* interp1d(x, y, bounds_error=False, fill_value=(below, above)) at q
Interp1dFill(x, y, below, above, q) ==
    IF RLt(q, NpMin(x)) THEN below
    ELSE IF RLt(NpMax(x), q) THEN above
    ELSE Interp1dLinear(x, y, q)

---------------------------------------------------------------------------
(* The inputs the model draws from: turbines and controller_params. *)

\* the wind-speed grid step, 0.5 m/s
Step == 5

\* power-coefficient tables (rows: TSR_initial, columns: pitch_initial_rad),
\* in units of 0.01; every row is strictly monotonic in pitch
CpTables ==
    << << <<20, 12, 5>>, <<40, 30, 12>>, <<48, 25, 3>> >>,
       << <<4, 9, 15>>,  <<10, 22, 36>>, <<6, 20, 44>> >> >>

\* thrust-coefficient tables, in units of 0.1
CtTables ==
    << << <<6, 4, 2>>, <<10, 7, 3>>, <<14, 9, 4>> >>,
       << <<2, 3, 5>>, <<3, 6, 8>>,  <<5, 9, 12>> >> >>

TableMax(tab) ==
    CHOOSE m \in {tab[i][p] : i \in DOMAIN tab, p \in 1..3} :
        \A i \in DOMAIN tab, p \in 1..3 : tab[i][p] <= m

\* <<v_min, v_rated, v_max>> in units of 0.1 m/s: rated speed on and off the
\* below-rated grid, cut-out speed on and off the above-rated grid, and two
\* turbines whose above-rated grid is empty (v_rated + 0.5 = v_max and
\* v_rated + 0.5 > v_max)
Winds ==
    { <<MinV, 10, 20>>, <<MinV, 10, MaxVmax>>, <<MinV, 12, 20>>,
      <<MinV + 2, 12, MaxVmax>>, <<MinV, 15, MaxVmax>>, <<MinV + 2, 15, 20>>,
      <<MinV + 2, 17, 20>> }

Turbines ==
    { [ J |-> 2, rho |-> 1, rotor_radius |-> 2, Ng |-> 2,
        rated_rotor_speed |-> 30,
        v_min |-> w[1], v_rated |-> w[2], v_max |-> w[3],
        pitch_initial_rad |-> <<0, 2, 4>>,
        TSR_initial |-> <<2, 5, 8>>,
        Cp |-> [tab |-> CpTables[k], TSR_opt |-> RInt(6),
                max |-> RInt(TableMax(CpTables[k]))],
        Ct |-> [tab |-> CtTables[k]] ] :
        w \in Winds, k \in DOMAIN CpTables }

FlagKeys ==
    {"LoggingLevel", "F_LPFType", "F_NotchType", "IPC_ControlMode",
     "VS_ControlMode", "PC_ControlMode", "Y_ControlMode", "SS_Mode",
     "WE_Mode", "PS_Mode"}

NecessaryKeys == {"zeta_pc", "omega_pc", "zeta_vs", "omega_vs"}

OptionalKeys ==
    {"min_pitch", "max_pitch", "ss_vsgain", "ss_pcgain", "ss_cornerfreq",
     "ps_percent"}

\* the keys in the order Controller.__init__ reads them
InitKeyOrder ==
    <<"LoggingLevel", "F_LPFType", "F_NotchType", "IPC_ControlMode",
      "VS_ControlMode", "PC_ControlMode", "Y_ControlMode", "SS_Mode",
      "WE_Mode", "PS_Mode", "zeta_pc", "omega_pc", "zeta_vs", "omega_vs",
      "min_pitch", "max_pitch", "ss_vsgain", "ss_pcgain", "ss_cornerfreq",
      "ps_percent">>

RequiredPart ==
    [k \in FlagKeys |-> PyNum(One)] @@
    [zeta_pc  |-> PyNum(Rat(7, 10)), omega_pc |-> PyNum(Rat(3, 10)),
     zeta_vs  |-> PyNum(Rat(7, 10)), omega_vs |-> PyNum(Rat(1, 5))]

\* what the caller supplies for the optional keys other than ps_percent
OptionalProfiles ==
    { [k \in OptionalKeys \ {"ps_percent"} |-> PyNone],
      [k \in OptionalKeys \ {"ps_percent"} |-> PyNum(Zero)],
      [k \in OptionalKeys \ {"ps_percent"} |-> PyBool(FALSE)],
      [min_pitch |-> PyNum(One), max_pitch |-> PyNum(RInt(3)),
       ss_vsgain |-> PyNum(RInt(2)), ss_pcgain |-> PyNum(Rat(1, 100)),
       ss_cornerfreq |-> PyNum(Rat(1, 2))] }

\* with each profile, the same kind of value for ps_percent; and with the
\* first profile, every other ps_percent tried
PsPercentValues ==
    {PyNone, PyNum(Zero), PyBool(FALSE), PyNum(Rat(1, 2)), PyNum(One)}

CompleteParams ==
    { RequiredPart @@ prof @@ [ps_percent |-> ps] :
        prof \in {[k \in OptionalKeys \ {"ps_percent"} |-> PyNone]},
        ps \in PsPercentValues }
    \cup
    { RequiredPart @@ prof @@
        [ps_percent |-> IF prof.min_pitch = PyNum(One)
                        THEN PyNum(Rat(1, 2)) ELSE prof.min_pitch] :
        prof \in OptionalProfiles }

Without(d, key) == [k \in DOMAIN d \ {key} |-> d[k]]

\* dictionaries that lack a key
IncompleteParams ==
    LET d == RequiredPart @@
             [k \in OptionalKeys |-> PyNum(One)]
    IN  { Without(d, key) : key \in {"zeta_pc", "min_pitch", "ps_percent"} }

ParamSets == CompleteParams \cup IncompleteParams

---------------------------------------------------------------------------
(* Controller.__init__ *)

\* the documented default of an optional parameter
DefaultOf(key) ==
    CASE key = "min_pitch"     -> PyNum(Zero)
      [] key = "max_pitch"     -> PyNum(RMul(RInt(90), deg2rad))
      [] key = "ss_vsgain"     -> PyNum(One)
      [] key = "ss_pcgain"     -> PyNum(Rat(1, 1000))
      [] key = "ss_cornerfreq" -> PyDec(<<6, 2, 8, 3, 1, 8, 5, 0, 0, 0, 1>>)
      [] key = "ps_percent"    -> PyNum(Rat(3, 4))

\* a defaulting that replaces only None
OptionalOrDefaultIfNone(cp, key) ==
    IF cp[key] # PyNone THEN cp[key] ELSE DefaultOf(key)

\* if controller_params[key]: self.key = controller_params[key]
\* else: self.key = <default>
OptionalOrDefault(cp, key) ==
    IF Truthy(cp[key]) THEN cp[key] ELSE DefaultOf(key)

\* controller_params[key] of a key the dictionary lacks raises KeyError
InitRaises(cp) ==
    IF \E i \in DOMAIN InitKeyOrder : InitKeyOrder[i] \notin DOMAIN cp
    THEN "KeyError" ELSE "none"

\* the attributes of the constructed Controller
ControllerInit(cp) ==
    [k \in FlagKeys \cup NecessaryKeys |-> cp[k]] @@
    [k \in OptionalKeys |-> OptionalOrDefault(cp, k)]

---------------------------------------------------------------------------
(* ControllerTypes.second_order_PI *)

\* a sequence of integers as reals
AsReals(v) == MkSeq([i \in DOMAIN v |-> RInt(v[i])])

\* the sums of the normal equations of a line fit
NormalSums(vr, y) ==
    [Sx  |-> SeqSum(vr),
     Sy  |-> SeqSum(y),
     Sxx |-> SeqSum(MkSeq([i \in DOMAIN vr |-> RMul(vr[i], vr[i])])),
     Sxy |-> SeqSum(MkSeq([i \in DOMAIN vr |-> RMul(vr[i], y[i])]))]

\* the least-squares slope over n points
FitSlope(n, s) ==
    RDiv(RSub(RMul(n, s.Sxy), RMul(s.Sx, s.Sy)),
         RSub(RMul(n, s.Sxx), RMul(s.Sx, s.Sx)))

\* <<slope, intercept>>, the intercept from the slope
FitLine(n, s, p0) == <<p0, RDiv(RSub(s.Sy, RMul(p0, s.Sx)), n)>>

LeastSquares(n, s) == FitLine(n, s, FitSlope(n, s))

\* np.polyfit(v, y, 1): the least-squares line <<slope, intercept>> through
\* the points (v[i], y[i]); one point alone gives the minimum-norm solution
\* of the scaled system, <<y/(2v), y/2>>
Polyfit1(v, y) ==
    IF Len(v) = 1
    THEN <<RDiv(y[1], RMul(RInt(2), RInt(v[1]))), RDiv(y[1], RInt(2))>>
    ELSE LeastSquares(RInt(Len(v)), NormalSums(AsReals(v), y))

\* A = pA[0]*v + pA[1]
PolyLine(p, v) == MkSeq([i \in DOMAIN v |-> RAdd(RMul(p[1], RInt(v[i])), p[2])])

\* pA = np.polyfit(v,A,1); A = pA[0]*v + pA[1]
Linearized(v, y) == PolyLine(Polyfit1(v, y), v)

\* the gains with the damping term left out of Kp
PIGainsUndamped(zeta, om_n, A, B) ==
    [Kp |-> MkSeq([i \in DOMAIN B |-> RMul(RInv(B[i]), A[i])]),
     Ki |-> MkSeq([i \in DOMAIN B |-> RDiv(RPow(om_n, 2), B[i])])]

\* Kp = 1/B * (2*zeta*om_n + A); Ki = om_n**2/B
PIGains(zeta, om_n, A, B) ==
    [Kp |-> MkSeq([i \in DOMAIN B |->
                RMul(RInv(B[i]),
                     RAdd(RMul(RMul(RInt(2), zeta), om_n), A[i]))]),
     Ki |-> MkSeq([i \in DOMAIN B |-> RDiv(RPow(om_n, 2), B[i])])]

\* the Kp and Ki that second_order_PI stores on self
SecondOrderPI(zeta, om_n, A, B, linearize, v) ==
    PIGains(zeta, om_n,
            IF linearize THEN Linearized(v, A) ELSE A,
            IF linearize THEN Linearized(v, B) ELSE B)

---------------------------------------------------------------------------
(* Controller.tune_controller: the operating points *)

\* the below-rated grid with its end point included
VBelowRatedClosed(t) == NpArange(t.v_min, t.v_rated + 1, Step)

\* v_below_rated = np.arange(turbine.v_min, turbine.v_rated, 0.5)
VBelowRated(t) == NpArange(t.v_min, t.v_rated, Step)

\* v_above_rated = np.arange(turbine.v_rated+0.5, turbine.v_max, 0.5)
VAboveRated(t) == NpArange(t.v_rated + Step, t.v_max, Step)

\* rated_rotor_speed*R
TipSpeed(t) == RMul(RInt(t.rated_rotor_speed), RInt(t.rotor_radius))

\* TSR_below_rated = np.ones(len(v_below_rated))*turbine.Cp.TSR_opt
TSRBelowRated(t) == OnesTimes(Len(VBelowRated(t)), t.Cp.TSR_opt)

\* the rated tip-speed ratio at every above-rated point
TipSpeedOverRated(t, va) ==
    MkSeq([k \in DOMAIN va |-> RDiv(TipSpeed(t), RInt(t.v_rated))])

\* rated_rotor_speed*R/va, element by element
TipSpeedOver(t, va) == MkSeq([k \in DOMAIN va |-> RDiv(TipSpeed(t), RInt(va[k]))])

\* TSR_above_rated = rated_rotor_speed*R/v_above_rated
TSRAboveRated(t) == TipSpeedOver(t, VAboveRated(t))

\* TSR_rated = rated_rotor_speed*R/turbine.v_rated
TSRRated(t) == RDiv(TipSpeed(t), RInt(t.v_rated))

\* Cp_above_rated * (TSR_above_rated/TSR_rated)**3
CubicCp(Cp_above_rated, TSR_above, TSR_rated) ==
    MkSeq([k \in DOMAIN TSR_above |->
        RMul(Cp_above_rated, RPow(RDiv(TSR_above[k], TSR_rated), 3))])

\* Cp_above_rated = turbine.Cp.interp_surface(0,TSR_above_rated[0]), and
\* Cp_op_ar from it
CpAboveRated(t, TSR_above) ==
    CubicCp(InterpPoint(t, t.Cp, Zero, TSR_above[1]), TSR_above, TSRRated(t))

\* the Cp targets before saturation: Cp.max below rated,
\* Cp_above_rated * (TSR_above_rated/TSR_rated)**3 above rated
CpTargets(t) ==
    OnesTimes(Len(VBelowRated(t)), t.Cp.max) \o CpAboveRated(t, TSRAboveRated(t))

\* a saturation at the upper bound only
SaturateCpAbove(target, Cp_TSR) == RMin(target, NpMax(Cp_TSR))

\* Cp_op[i] = np.clip(Cp_op[i], np.min(Cp_TSR), np.max(Cp_TSR))
SaturateCp(target, Cp_TSR) == NpClip(target, NpMin(Cp_TSR), NpMax(Cp_TSR))

\* the pitch grid as reals
PitchGrid(t) == AsReals(t.pitch_initial_rad)

\* pitch_op[i] = f_cp_pitch(Cp_op[i]), where interp1d does not raise
InvertCp(t, Cp_TSR, Cp) ==
    IF Interp1dInBounds(Cp_TSR, Cp)
    THEN Interp1dLinear(Cp_TSR, PitchGrid(t), Cp) ELSE Zero

\* dCp_beta[i], dCp_TSR[i] = turbine.Cp.interp_gradient(pitch_op[i],TSR_op[i])
PointAtPitch(t, tsr, Cp, ok, pitch) ==
    [Cp_op |-> Cp, ok |-> ok, pitch_op |-> pitch] @@
    InterpGradient(t, t.Cp, pitch, tsr)

\* the operating point for the saturated target Cp on the slice Cp_TSR
PointOnSlice(t, tsr, Cp_TSR, Cp) ==
    PointAtPitch(t, tsr, Cp, Interp1dInBounds(Cp_TSR, Cp), InvertCp(t, Cp_TSR, Cp))

SaturatedPoint(t, tsr, target, Cp_TSR) ==
    PointOnSlice(t, tsr, Cp_TSR, SaturateCp(target, Cp_TSR))

\* the loop over the operating points: for each, the saturated Cp target, the
\* pitch that interp1d(Cp_TSR, pitch_initial_rad) gives for it (or the
\* ValueError it raises), and the gradient of the Cp surface there
OperatingPoint(t, tsr, target) ==
    SaturatedPoint(t, tsr, target, InterpSlice(t, t.Cp, tsr))

---------------------------------------------------------------------------
(* Controller.tune_controller: the linearized plant *)

\* Ar = np.pi*R**2
RotorArea(t) == RMul(pi, RPow(RInt(t.rotor_radius), 2))

\* the plant pole A and the pitch input gain B_beta at one operating point
PlantCoefficients(t, v, tsr, Cp, dCp_beta, dCp_TSR) ==
    LET J   == RInt(t.J)
        rho == RInt(t.rho)
        R   == RInt(t.rotor_radius)
        Ar  == RotorArea(t)
        Ng  == RInt(t.Ng)
        vv  == RInt(v)
        k   == RMul(RMul(RMul(RDiv(Ng, RInt(2)), rho), Ar), R)
        dCp_dbeta == RDiv(dCp_beta,
                          RInt(t.pitch_initial_rad[2] - t.pitch_initial_rad[1]))
        dCp_dTSR  == RDiv(dCp_TSR, RInt(t.TSR_initial[2] - t.TSR_initial[1]))
        dtau_dbeta   == RMul(RMul(RMul(k, RInv(tsr)), dCp_dbeta), RPow(vv, 2))
        dtau_dlambda == RMul(RMul(RMul(k, RPow(vv, 2)), RInv(RPow(tsr, 2))),
                             RSub(RMul(dCp_dTSR, tsr), Cp))
        dlambda_domega == RDiv(RDiv(R, vv), Ng)
        dtau_domega    == RMul(dtau_dlambda, dlambda_domega)
    IN  [A |-> RDiv(dtau_domega, J), B_beta |-> RDiv(dtau_dbeta, J)]

\* B_tau = -Ng**2/J
TorqueInputGain(t) == RDiv(RNeg(RPow(RInt(t.Ng), 2)), RInt(t.J))

---------------------------------------------------------------------------
(* ControllerBlocks.peak_shaving *)

\* 0.5 * rho * A * v**2
DynamicPressureArea(t, v) ==
    RMul(RMul(RMul(Rat(1, 2), RInt(t.rho)), RotorArea(t)), RPow(RInt(v), 2))

\* 0.5 * rho * A * v**2 * Ct
Thrust(t, v, Ct) == RMul(DynamicPressureArea(t, v), Ct)

\* the inversion with the two fill values the other way round
PitchMinAtSwapped(grid, Ct_tsr, Ct_max) ==
    Interp1dFill(Ct_tsr, grid, grid[Len(grid)], grid[1], Ct_max)

\* f_pitch_min = interp1d(Ct_tsr, pitch_initial_rad, bounds_error=False,
\*                        fill_value=(pitch_initial_rad[0],pitch_initial_rad[-1]))
\* pitch_min[i] = f_pitch_min(Ct_max[i])
PitchMinAt(grid, Ct_tsr, Ct_max) ==
    Interp1dFill(Ct_tsr, grid, grid[1], grid[Len(grid)], Ct_max)

ShaveRecord(t, Ct_tsr, Ct_op, Ct_max) ==
    [Ct_op     |-> Ct_op,
     Ct_max    |-> Ct_max,
     pitch_min |-> PitchMinAt(PitchGrid(t), Ct_tsr, Ct_max)]

\* the second loop leaving the operating coefficient of every point alone
ShaveAtKeepCt(t, Ct_tsr, ceiling, shaved, Ct_unshaved) ==
    ShaveRecord(t, Ct_tsr, Ct_unshaved,
                IF shaved THEN ceiling ELSE RMin(NpMax(Ct_tsr), ceiling))

\* if T[i] > Tmax: Ct_op[i] = Ct_max[i]
\* else: Ct_max[i] = np.minimum(np.max(Ct_tsr), Ct_max[i])
ShaveAt(t, Ct_tsr, ceiling, shaved, Ct_unshaved) ==
    ShaveRecord(t, Ct_tsr,
                IF shaved THEN ceiling ELSE Ct_unshaved,
                IF shaved THEN ceiling ELSE RMin(NpMax(Ct_tsr), ceiling))

\* one pass of the second loop: the ceiling Ct_max[i], the operating Ct_op[i]
\* and the minimum pitch pitch_min[i]
ShavePoint(t, v, tsr, T, Tmax, Ct_unshaved) ==
    ShaveAt(t, InterpSlice(t, t.Ct, tsr),
            RDiv(Tmax, DynamicPressureArea(t, v)), RLt(Tmax, T), Ct_unshaved)

\* the first loop: Ct_op[i] = turbine.Ct.interp_surface(pitch_op[i], TSR_op[i])
UnshavedCt(controller, t) ==
    MkSeq([i \in DOMAIN controller.TSR_op |->
        InterpPoint(t, t.Ct, controller.pitch_op[i], controller.TSR_op[i])])

\* T = 0.5 * rho * A * controller.v**2 * Ct_op, as the first loop leaves it
UnshavedThrust(controller, t, Ct0) ==
    MkSeq([i \in DOMAIN Ct0 |-> Thrust(t, controller.v[i], Ct0[i])])

\* the second loop
ShavePoints(controller, t, Ct0, T, Tmax) ==
    MkSeq([i \in DOMAIN controller.TSR_op |->
        ShavePoint(t, controller.v[i], controller.TSR_op[i], T[i], Tmax, Ct0[i])])

\* pitch_min = np.ones(len(controller.pitch_op)) * controller.min_pitch, then
\* pitch_min[i] assigned for every i in range(len(controller.TSR_op))
PitchMin(controller, pt) ==
    MkSeq([i \in DOMAIN controller.pitch_op |->
        IF i \in DOMAIN pt THEN pt[i].pitch_min
        ELSE AsReal(controller.min_pitch)])

\* peak_shaving storing pitch_min for the pitch-controlled region only
PeakShavingStoredPitchLoop(controller, t, T, pt) ==
    [Tshaved   |-> MkSeq([i \in DOMAIN pt |->
                       Thrust(t, controller.v[i], pt[i].Ct_op)]),
     pitch_min |-> Slice(PitchMin(controller, pt),
                         Len(controller.v_below_rated), Len(controller.v)),
     v         |-> controller.v,
     Ct_max    |-> MkSeq([i \in DOMAIN pt |-> pt[i].Ct_max]),
     Ct_op     |-> MkSeq([i \in DOMAIN pt |-> pt[i].Ct_op]),
     T         |-> T]

\* the attributes peak_shaving stores on the ControllerBlocks object
PeakShavingStored(controller, t, T, pt) ==
    [Tshaved   |-> MkSeq([i \in DOMAIN pt |->
                       Thrust(t, controller.v[i], pt[i].Ct_op)]),
     pitch_min |-> PitchMin(controller, pt),
     v         |-> controller.v,
     Ct_max    |-> MkSeq([i \in DOMAIN pt |-> pt[i].Ct_max]),
     Ct_op     |-> MkSeq([i \in DOMAIN pt |-> pt[i].Ct_op]),
     T         |-> T]

\* Tmax = controller.ps_percent * np.max(T)
PeakShavingOf(controller, t, Ct0, T) ==
    PeakShavingStored(controller, t, T,
        ShavePoints(controller, t, Ct0, T,
                    RMul(AsReal(controller.ps_percent), NpMax(T))))

PeakShavingFrom(controller, t, Ct0) ==
    PeakShavingOf(controller, t, Ct0, UnshavedThrust(controller, t, Ct0))

PeakShaving(controller, t) ==
    PeakShavingFrom(controller, t, UnshavedCt(controller, t))

---------------------------------------------------------------------------
(* Controller.tune_controller: the whole method *)

\* lines 104-120: the wind speeds, the tip-speed ratios and the Cp targets
OperatingTrajectory(t) ==
    [v_below_rated |-> VBelowRated(t),
     v_above_rated |-> VAboveRated(t),
     v      |-> VBelowRated(t) \o VAboveRated(t),
     TSR_op |-> TSRBelowRated(t) \o TSRAboveRated(t),
     Cp_op  |-> CpTargets(t)]

\* lines 139-151 at the operating point op
Linearize(t, v, tsr, op) ==
    [Cp_op |-> op.Cp_op, ok |-> op.ok, pitch_op |-> op.pitch_op] @@
    PlantCoefficients(t, v, tsr, op.Cp_op, op.dCp_beta, op.dCp_TSR)

\* lines 130-151 at one operating point
LinearizedPoint(t, v, tsr, target) ==
    Linearize(t, v, tsr, OperatingPoint(t, tsr, target))

LinearizedPoints(t, traj) ==
    MkSeq([i \in DOMAIN traj.TSR_op |->
              LinearizedPoint(t, traj.v[i], traj.TSR_op[i], traj.Cp_op[i])])

\* some f_cp_pitch(Cp_op[i]) is a query outside the table
InversionRaises(pts) == \E i \in DOMAIN pts : ~pts[i].ok

\* the exception tune_controller raises on turbine t, "none" if it returns:
\* TSR_above_rated[0] of an empty above-rated grid is an IndexError, and
\* interp1d raises ValueError for a query outside its table
TuneRaises(t) ==
    IF Len(VAboveRated(t)) = 0 THEN "IndexError"
    ELSE IF InversionRaises(LinearizedPoints(t, OperatingTrajectory(t)))
         THEN "ValueError" ELSE "none"

\* self.vs_rgn2K = 0.5*rho*Ar*R**5 * turbine.Cp.max / (turbine.Cp.TSR_opt**3 * Ng)
VsRgn2K(t, R) ==
    RDiv(RMul(RMul(RMul(RMul(Rat(1, 2), RInt(t.rho)), RotorArea(t)),
                   RMul(RPow(R, 2), RPow(R, 3))),
              t.Cp.max),
         RMul(RPow(t.Cp.TSR_opt, 3), RInt(t.Ng)))

\* the pitch-loop schedule computed without the linearization
PitchScheduleUnfitted(self, A_pc, B_beta, v_above_rated) ==
    SecondOrderPI(AsReal(self.zeta_pc), AsReal(self.omega_pc),
                  A_pc, B_beta, FALSE, v_above_rated)

\* the pitch-loop schedule: second_order_PI(zeta_pc, omega_pc, A_pc, B_beta,
\* linearize=True, v=v_above_rated)
PitchSchedule(self, A_pc, B_beta, v_above_rated) ==
    SecondOrderPI(AsReal(self.zeta_pc), AsReal(self.omega_pc),
                  A_pc, B_beta, TRUE, v_above_rated)

\* the torque-loop schedule over B_tau[1:]
TorqueScheduleShort(self, A_vs, B_tau, v_below_rated) ==
    SecondOrderPI(AsReal(self.zeta_vs), AsReal(self.omega_vs),
                  A_vs, Slice(B_tau, 1, Len(B_tau)), FALSE, v_below_rated)

\* the torque-loop schedule: second_order_PI(zeta_vs, omega_vs, A_vs, B_tau,
\* linearize=False, v=v_below_rated)
TorqueSchedule(self, A_vs, B_tau, v_below_rated) ==
    SecondOrderPI(AsReal(self.zeta_vs), AsReal(self.omega_vs),
                  A_vs, B_tau, FALSE, v_below_rated)

\* lines 159-187 from the per-point arrays: nb = len(v_below_rated),
\* n = len(v)
StoreArrays(self, t, traj, nb, n, A, B_beta_all, pitch_op, Cp_op) ==
    [pc_gain_schedule |->
        PitchSchedule(self, Slice(A, nb, n), Slice(B_beta_all, nb, n),
                      traj.v_above_rated),
     vs_gain_schedule |->
        TorqueSchedule(self, Slice(A, 0, nb),
                       OnesTimes(nb, TorqueInputGain(t)), traj.v_below_rated),
     vs_rgn2K  |-> VsRgn2K(t, RInt(t.rotor_radius)),
     vs_refspd |-> RMul(RMin(RDiv(RMul(t.Cp.TSR_opt, RInt(t.v_rated)),
                                  RInt(t.rotor_radius)),
                             RInt(t.rated_rotor_speed)), RInt(t.Ng)),
     vs_minspd |-> RMul(RDiv(RMul(t.Cp.TSR_opt, RInt(t.v_min)),
                             RInt(t.rotor_radius)), RInt(t.Ng)),
     v             |-> traj.v,
     v_below_rated |-> traj.v_below_rated,
     Cp_op         |-> Cp_op,
     pitch_op      |-> pitch_op,
     pitch_op_pc   |-> Slice(pitch_op, nb, n),
     TSR_op        |-> traj.TSR_op,
     A             |-> A,
     B_beta        |-> Slice(B_beta_all, nb, n),
     B_tau         |-> OnesTimes(nb, TorqueInputGain(t))]

\* lines 159-187: the attributes assigned on self before peak shaving
TuneStored(self, t, traj, pts) ==
    StoreArrays(self, t, traj, Len(traj.v_below_rated), Len(traj.v),
                MkSeq([i \in DOMAIN pts |-> pts[i].A]),
                MkSeq([i \in DOMAIN pts |-> pts[i].B_beta]),
                MkSeq([i \in DOMAIN pts |-> pts[i].pitch_op]),
                MkSeq([i \in DOMAIN pts |-> pts[i].Cp_op]))

\* tune_controller creating the peak-shaving block only where self has none
WithPeakShavingKept(self, t, stored) ==
    IF "ps" \in DOMAIN self
    THEN [ps |-> self.ps] @@ stored
    ELSE [ps |-> PeakShaving(stored @@ self, t)] @@ stored

\* line 190-191: self.ps = ControllerBlocks(); self.ps.peak_shaving(self, turbine)
WithPeakShaving(self, t, stored) ==
    [ps |-> PeakShaving(stored @@ self, t)] @@ stored

\* the attributes tune_controller assigns on self, for a call that returns
TuneAttributes(self, t) ==
    WithPeakShaving(self, t,
        TuneStored(self, t, OperatingTrajectory(t),
                   LinearizedPoints(t, OperatingTrajectory(t))))

\* a call storing the wind-speed grids before it reads the tip-speed ratios
TuneFailedGridsStored(self, t) ==
    [v             |-> VBelowRated(t) \o VAboveRated(t),
     v_below_rated |-> VBelowRated(t)] @@ self

\* the attributes of self after a call that raises: the statements up to the
\* raising one (line 117 or the inversion at line 135) assign local names
\* only
TuneFailed(self, t) == self

---------------------------------------------------------------------------
(* FileProcessing.write_param_file: the table lines of the parameter file. *)
(* A line is the sequence of its whitespace-separated entries; the lines   *)
(* that hold one scalar each are not carried.                              *)

\* numpy's print options at str(array): an array of more than `threshold`
\* entries is printed as its first and last `edgeitems` entries around "..."
PrintThreshold == 1000

PrintEdgeItems == 3

NumberEntry(x) == [kind |-> "number", val |-> x]

Ellipsis == [kind |-> "ellipsis", val |-> Zero]

\* str(a).strip('[]').replace('\n',''): one entry per element, or the
\* summary of a long array
StrArray(a) ==
    IF Len(a) > PrintThreshold
    THEN MkSeq([i \in 1..(2 * PrintEdgeItems + 1) |->
             IF i <= PrintEdgeItems THEN NumberEntry(a[i])
             ELSE IF i = PrintEdgeItems + 1 THEN Ellipsis
             ELSE NumberEntry(a[Len(a) - (2 * PrintEdgeItems + 1) + i])])
    ELSE MkSeq([i \in DOMAIN a |-> NumberEntry(a[i])])

\* format(len(a), '<6d'): the count, left-aligned
FormatLen(a) == <<NumberEntry(RInt(Len(a)))>>

\* np.zeros(n)
NpZeros(n) == MkSeq([i \in 1..n |-> Zero])

\* the pitch table written from the whole pitch trajectory
PitchTableAllPoints(controller) ==
    [PC_GS_n      |-> FormatLen(controller.pitch_op_pc),
     PC_GS_angles |-> StrArray(controller.pitch_op),
     PC_GS_KP     |-> StrArray(controller.pc_gain_schedule.Kp),
     PC_GS_KI     |-> StrArray(controller.pc_gain_schedule.Ki),
     PC_GS_KD     |-> StrArray(NpZeros(Len(controller.pitch_op))),
     PC_GS_TF     |-> StrArray(NpZeros(Len(controller.pitch_op)))]

\* lines 321-326: the pitch-controller gain-schedule table
PitchTable(controller) ==
    [PC_GS_n      |-> FormatLen(controller.pitch_op_pc),
     PC_GS_angles |-> StrArray(controller.pitch_op_pc),
     PC_GS_KP     |-> StrArray(controller.pc_gain_schedule.Kp),
     PC_GS_KI     |-> StrArray(controller.pc_gain_schedule.Ki),
     PC_GS_KD     |-> StrArray(NpZeros(Len(controller.pitch_op_pc))),
     PC_GS_TF     |-> StrArray(NpZeros(Len(controller.pitch_op_pc)))]

\* lines 355-357: the torque-controller gains, one entry each
TorqueTable(controller) ==
    [VS_n  |-> <<NumberEntry(One)>>,
     VS_KP |-> <<NumberEntry(controller.vs_gain_schedule.Kp[
                    Len(controller.vs_gain_schedule.Kp)])>>,
     VS_KI |-> <<NumberEntry(controller.vs_gain_schedule.Ki[
                    Len(controller.vs_gain_schedule.Ki)])>>]

\* lines 374-376: the first-order poles of the wind-speed estimator
PolesTable(controller) ==
    [WE_FOPoles_N |-> FormatLen(controller.A),
     WE_FOPoles_v |-> StrArray(AsReals(controller.v)),
     WE_FOPoles   |-> StrArray(controller.A)]

\* lines 397-399: the minimum-pitch table of peak shaving
PeakShavingTable(controller) ==
    [PS_BldPitchMin_N |-> FormatLen(controller.ps.pitch_min),
     PS_WindSpeeds    |-> StrArray(AsReals(controller.ps.v)),
     PS_BldPitchMin   |-> StrArray(controller.ps.pitch_min)]

\* no file at param_file
NoFile == [exists |-> FALSE, closed |-> FALSE]

\* the file after open(param_file, 'w') and the lines before the tables
OpenedFile == [exists |-> TRUE, closed |-> FALSE]

\* the file after file.close()
WriteParamFile(controller) ==
    PitchTable(controller) @@ TorqueTable(controller)
        @@ PolesTable(controller) @@ PeakShavingTable(controller)
        @@ [exists |-> TRUE, closed |-> TRUE]

\* the first attribute read from controller that tune_controller assigns is
\* pitch_op_pc, at line 321; vs_gain_schedule.Kp[-1] at line 356 needs a
\* below-rated point
WriteRaises(controller) ==
    IF "pitch_op_pc" \notin DOMAIN controller THEN "AttributeError"
    ELSE IF Len(controller.vs_gain_schedule.Kp) = 0 THEN "IndexError"
    ELSE "none"

\* the file a failed call leaves behind: opened, not closed, with the lines
\* written before the failing one
PartialFile(controller) ==
    IF WriteRaises(controller) = "IndexError"
    THEN PitchTable(controller) @@ OpenedFile
    ELSE OpenedFile

---------------------------------------------------------------------------
(* The calling script: construct a Controller, tune it (again and again,   *)
(* for any turbine, until MaxRuns calls have returned), write the          *)
(* parameter file; second_order_PI may also be called on its own.          *)

NoTurbine == CHOOSE t \in Turbines : TRUE

NoArgs == [zeta |-> Zero, om_n |-> Zero, A |-> <<>>, B |-> <<>>,
           linearize |-> FALSE, v |-> <<>>]

\* the sequences of length n over the set S
SeqsOfLen(S, n) == {MkSeq(f) : f \in [1..n -> S]}

\* the arguments of the stand-alone second_order_PI calls: A and B of equal
\* length, and the wind speeds of as many points; zeta = 0.7, om_n = 0.3 among
\* them
PIArgSets ==
    UNION { { [zeta |-> Rat(7, 10), om_n |-> om, A |-> a, B |-> b,
               linearize |-> lin,
               v |-> MkSeq([i \in 1..n |-> 10 + Step * i])] :
                om \in {Rat(3, 10), One},
                a \in SeqsOfLen({Rat(-1, 2), Zero, RInt(2)}, n),
                b \in SeqsOfLen({One, RInt(-2)}, n),
                lin \in BOOLEAN } : n \in 1..MaxPILen }

Init ==
    /\ pc = "start"
    /\ params \in ParamSets
    /\ ctrl = <<>>
    /\ turbine = NoTurbine
    /\ gs = <<>>
    /\ piArgs = NoArgs
    /\ runs = 0
    /\ file = NoFile

\* ctrl = Controller(params)
Construct ==
    /\ pc = "start"
    /\ IF InitRaises(params) = "none"
       THEN pc' = "constructed" /\ ctrl' = ControllerInit(params)
       ELSE pc' = "init_error" /\ ctrl' = ctrl
    /\ UNCHANGED <<params, turbine, gs, piArgs, runs, file>>

\* ctrl.tune_controller(t)
TuneController(t) ==
    /\ pc \in {"constructed", "tuned", "tune_error"}
    /\ runs < MaxRuns
    /\ turbine' = t
    /\ IF TuneRaises(t) = "none"
       THEN /\ pc' = "tuned"
            /\ ctrl' = TuneAttributes(ctrl, t) @@ ctrl
            /\ runs' = runs + 1
       ELSE /\ pc' = "tune_error"
            /\ ctrl' = TuneFailed(ctrl, t)
            /\ runs' = runs
    /\ UNCHANGED <<params, gs, piArgs, file>>

\* FileProcessing().write_param_file(param_file, turbine, ctrl, new_file):
\* the last step of the script.  With new_file false nothing is opened or
\* written.  Otherwise the file is opened for writing, and the first missing
\* attribute of an untuned Controller ends the call with the file open.
WriteParamFileCall(new_file) ==
    /\ pc \in {"constructed", "tuned", "tune_error"}
    /\ IF ~new_file
       THEN pc' = "written" /\ file' = file
       ELSE IF WriteRaises(ctrl) = "none"
       THEN pc' = "written" /\ file' = WriteParamFile(ctrl)
       ELSE pc' = "write_error" /\ file' = PartialFile(ctrl)
    /\ UNCHANGED <<params, ctrl, turbine, gs, piArgs, runs>>

Next ==
    \/ Construct
    \/ \E t \in Turbines : TuneController(t)
    \/ \E new_file \in BOOLEAN : WriteParamFileCall(new_file)

Spec == Init /\ [][Next]_vars

---------------------------------------------------------------------------
(* second_order_PI on its own: a fresh ControllerTypes object, one call.   *)

InitPI ==
    /\ pc = "start"
    /\ params = CHOOSE cp \in CompleteParams : TRUE
    /\ ctrl = <<>>
    /\ turbine = NoTurbine
    /\ gs = <<>>
    /\ piArgs \in PIArgSets
    /\ runs = 0
    /\ file = NoFile

\* gs.second_order_PI(zeta, om_n, A, B, linearize, v)
CallSecondOrderPI ==
    /\ pc = "start"
    /\ pc' = "pi_called"
    /\ gs' = SecondOrderPI(piArgs.zeta, piArgs.om_n, piArgs.A, piArgs.B,
                           piArgs.linearize, piArgs.v) @@ gs
    /\ UNCHANGED <<params, ctrl, turbine, piArgs, runs, file>>

NextPI == CallSecondOrderPI

SpecPI == InitPI /\ [][NextPI]_vars

---------------------------------------------------------------------------
(* Properties of the wind-speed grids (spec 4.1, 8). *)

\* the points start + Step*k within lo..hi
GridPoints(start, lo, hi) ==
    {x \in lo..hi : x >= start /\ (x - start) % Step = 0}

\* s lists the set S of integers in ascending order
ListsAscending(s, S) ==
    /\ Len(s) = Cardinality(S)
    /\ {s[i] : i \in DOMAIN s} = S
    /\ \A i \in 1..(Len(s) - 1) : s[i] < s[i + 1]

\* the part of the stored wind speeds after the below-rated grid
StoredAbove == SubSeq(ctrl.v, Len(ctrl.v_below_rated) + 1, Len(ctrl.v))

\* C1: after tune_controller, v is the below-rated grid followed by the
\* above-rated grid; the below-rated grid is exactly the points v_min + 0.5k
\* in [v_min, v_rated), the above-rated grid exactly the points v_rated + 0.5k
\* (k >= 1) in (v_rated, v_max], v_max included when it falls on that grid
C1_GridsAsClaimed ==
    pc = "tuned" =>
        /\ ListsAscending(ctrl.v_below_rated,
                          GridPoints(turbine.v_min, turbine.v_min,
                                     turbine.v_rated - 1))
        /\ ctrl.v = ctrl.v_below_rated \o StoredAbove
        /\ ListsAscending(StoredAbove,
                          GridPoints(turbine.v_rated, turbine.v_rated + 1,
                                     turbine.v_max))

\* floor(a/b) and ceil(a/b) for b > 0
FloorOf(a, b) == a \div b

CeilOf(a, b) == IF a % b = 0 THEN a \div b ELSE (a \div b) + 1

\* v_min = 3, v_rated = 11.4, v_max = 25 m/s
ExampleWinds == [v_min |-> 30, v_rated |-> 114, v_max |-> 250]

---------------------------------------------------------------------------
(* Properties of the stored sequences (spec 4.2, 8). *)

\* C3: after every successful tune_controller, TSR_op, Cp_op, pitch_op, A and
\* ps.v, ps.pitch_min, ps.Ct_op, ps.Ct_max, ps.T, ps.Tshaved all have
\* len(v) = len(v_below_rated) + len(v_above_rated) entries, aligned with v,
\* the below-rated entries first
C3_TrajectoryLengths ==
    pc = "tuned" =>
        /\ Len(ctrl.v) = Len(ctrl.v_below_rated) + Len(VAboveRated(turbine))
        /\ SubSeq(ctrl.v, 1, Len(ctrl.v_below_rated)) = ctrl.v_below_rated
        /\ \A len \in {Len(ctrl.TSR_op), Len(ctrl.Cp_op), Len(ctrl.pitch_op),
                       Len(ctrl.A), Len(ctrl.ps.v), Len(ctrl.ps.pitch_min),
                       Len(ctrl.ps.Ct_op), Len(ctrl.ps.Ct_max),
                       Len(ctrl.ps.T), Len(ctrl.ps.Tshaved)} :
               len = Len(ctrl.v)
        /\ ctrl.ps.v = ctrl.v

C3_Witness ==
    /\ pc = "tuned"
    /\ Len(ctrl.v_below_rated) >= 2
    /\ Len(ctrl.v) - Len(ctrl.v_below_rated) >= 2
    /\ Len(ctrl.ps.pitch_min) = Len(ctrl.v)

\* C4 as stated: B_tau, B_beta and the Kp and Ki of both gain schedules each
\* have len(v) entries
C4_FullLength ==
    pc = "tuned" =>
        \A len \in {Len(ctrl.B_tau), Len(ctrl.B_beta),
                    Len(ctrl.pc_gain_schedule.Kp), Len(ctrl.pc_gain_schedule.Ki),
                    Len(ctrl.vs_gain_schedule.Kp), Len(ctrl.vs_gain_schedule.Ki)} :
            len = Len(ctrl.v)

\* C4 amended: B_tau and the torque-loop Kp and Ki have len(v_below_rated)
\* entries; B_beta and the pitch-loop Kp and Ki have len(v_above_rated)
C4_RegionLengths ==
    pc = "tuned" =>
        /\ \A len \in {Len(ctrl.B_tau), Len(ctrl.vs_gain_schedule.Kp),
                       Len(ctrl.vs_gain_schedule.Ki)} :
               len = Len(ctrl.v_below_rated)
        /\ \A len \in {Len(ctrl.B_beta), Len(ctrl.pc_gain_schedule.Kp),
                       Len(ctrl.pc_gain_schedule.Ki)} :
               len = Len(ctrl.v) - Len(ctrl.v_below_rated)

C4_Witness ==
    /\ pc = "tuned"
    /\ Len(ctrl.vs_gain_schedule.Kp) = 1
    /\ Len(ctrl.pc_gain_schedule.Kp) = 3
    /\ Len(ctrl.v) = 4

\* C5: every below-rated entry of TSR_op equals TSR_opt; the above-rated
\* entries equal rated_rotor_speed*R/v and strictly decrease with the index
C5_TipSpeedRatios ==
    pc = "tuned" =>
        /\ \A i \in 1..Len(ctrl.v_below_rated) :
               ctrl.TSR_op[i] = turbine.Cp.TSR_opt
        /\ \A i \in (Len(ctrl.v_below_rated) + 1)..Len(ctrl.v) :
               /\ ctrl.TSR_op[i].d > 0
               /\ ctrl.TSR_op[i].n * ctrl.v[i] =
                      turbine.rated_rotor_speed * turbine.rotor_radius
                          * ctrl.TSR_op[i].d
        /\ \A i \in (Len(ctrl.v_below_rated) + 1)..(Len(ctrl.v) - 1) :
               ctrl.TSR_op[i + 1].n * ctrl.TSR_op[i].d
                   < ctrl.TSR_op[i].n * ctrl.TSR_op[i + 1].d

C5_Witness ==
    /\ pc = "tuned"
    /\ Len(ctrl.v_below_rated) >= 1
    /\ Len(ctrl.TSR_op) - Len(ctrl.v_below_rated) >= 3
    /\ ctrl.TSR_op[Len(ctrl.TSR_op)] # ctrl.TSR_op[Len(ctrl.TSR_op) - 1]

---------------------------------------------------------------------------
(* Properties of the operating points (spec 4.1, 8). *)

\* the slice of the Cp surface at the i-th stored tip-speed ratio
CpSlice(i) == InterpSlice(turbine, turbine.Cp, ctrl.TSR_op[i])

\* x moved to the nearest point of [lo, hi]
NearestIn(x, lo, hi) ==
    IF RLt(x, lo) THEN lo ELSE IF RLt(hi, x) THEN hi ELSE x

\* C6: every stored Cp_op[i] lies within [min, max] of the Cp slice at
\* TSR_op[i]; a target outside that range is replaced by the nearest bound,
\* never rejected, so the pitch inversion never raises for a query outside
\* the slice
C6_CpSaturated ==
    /\ pc = "tuned" =>
        \A i \in DOMAIN ctrl.Cp_op :
            /\ RLe(NpMin(CpSlice(i)), ctrl.Cp_op[i])
            /\ RLe(ctrl.Cp_op[i], NpMax(CpSlice(i)))
            /\ ctrl.Cp_op[i] =
                   NearestIn(CpTargets(turbine)[i],
                             NpMin(CpSlice(i)), NpMax(CpSlice(i)))
    /\ pc = "tune_error" => TuneRaises(turbine) # "ValueError"

\* a tuned state with one target above its slice and one target below it
C6_Witness ==
    /\ pc = "tuned"
    /\ \E i \in DOMAIN ctrl.Cp_op :
           RLt(NpMax(CpSlice(i)), CpTargets(turbine)[i])
    /\ \E i \in DOMAIN ctrl.Cp_op :
           RLt(CpTargets(turbine)[i], NpMin(CpSlice(i)))

---------------------------------------------------------------------------
(* Properties of the gain synthesis (spec 4.3, 8). *)

\* (2*zeta*om_n + A[i]) / B[i] and om_n^2 / B[i] for every i
RefGains(zeta, om_n, A, B) ==
    [Kp |-> MkSeq([i \in DOMAIN B |->
                RDiv(RAdd(RMul(RMul(RInt(2), zeta), om_n), A[i]), B[i])]),
     Ki |-> MkSeq([i \in DOMAIN B |-> RDiv(RMul(om_n, om_n), B[i])])]

\* C7: second_order_PI without linearization sets Kp[i] = (2*zeta*om_n +
\* A[i]) / B[i] and Ki[i] = om_n^2 / B[i] for every index of the equal-length
\* inputs A and B, Kp and Ki as long as A and B, the inputs used as given
C7_NonLinearizedGains ==
    (pc = "pi_called" /\ ~piArgs.linearize) =>
        /\ Len(gs.Kp) = Len(piArgs.A)
        /\ Len(gs.Ki) = Len(piArgs.B)
        /\ gs.Kp = RefGains(piArgs.zeta, piArgs.om_n, piArgs.A, piArgs.B).Kp
        /\ gs.Ki = RefGains(piArgs.zeta, piArgs.om_n, piArgs.A, piArgs.B).Ki

\* the call with zeta = 0.7, om_n = 0.3 on three points with different poles
C7_Witness ==
    /\ pc = "pi_called"
    /\ ~piArgs.linearize
    /\ piArgs.zeta = Rat(7, 10)
    /\ piArgs.om_n = Rat(3, 10)
    /\ piArgs.A = <<Rat(-1, 2), Zero, RInt(2)>>
    /\ piArgs.B = <<One, RInt(-2), One>>
    /\ gs.Kp = <<Rat(-2, 25), Rat(-21, 100), Rat(121, 50)>>

\* the mean of a sequence of reals
Mean(s) == RDiv(SeqSum(s), RInt(Len(s)))

\* sum of (x[i] - xm) * (y[i] - ym)
CoSum(x, xm, y, ym) ==
    SeqSum(MkSeq([i \in DOMAIN x |-> RMul(RSub(x[i], xm), RSub(y[i], ym))]))

\* the line through (xm, ym) with the given slope, at every x[i]
LineThrough(x, xm, ym, slope) ==
    MkSeq([i \in DOMAIN x |-> RAdd(ym, RMul(slope, RSub(x[i], xm)))])

CenteredFit(x, xm, y, ym) ==
    LineThrough(x, xm, ym, RDiv(CoSum(x, xm, y, ym), CoSum(x, xm, x, xm)))

\* the reference fit: the values at v of the least-squares line through the
\* points (v[i], y[i]), by the centered formulas; through one point alone,
\* every least-squares line takes the value y there
RefFitted(v, y) ==
    IF Len(v) = 1 THEN y
    ELSE CenteredFit(AsReals(v), Mean(AsReals(v)), y, Mean(y))

\* the stored plant poles of the above-rated points
StoredApc == SubSeq(ctrl.A, Len(ctrl.v_below_rated) + 1, Len(ctrl.v))

\* C8: with linearize=True second_order_PI replaces A and B by the values at
\* every v[i] of their least-squares lines against v and computes Kp and Ki
\* from those with the formula of the non-linearized case; the tuning engine
\* uses this mode for the pitch loop and the non-linearized mode for the
\* torque loop
C8_LinearizedGains ==
    pc = "tuned" =>
        /\ ctrl.pc_gain_schedule =
               RefGains(AsReal(ctrl.zeta_pc), AsReal(ctrl.omega_pc),
                        RefFitted(StoredAbove, StoredApc),
                        RefFitted(StoredAbove, ctrl.B_beta))
        /\ ctrl.vs_gain_schedule =
               RefGains(AsReal(ctrl.zeta_vs), AsReal(ctrl.omega_vs),
                        SubSeq(ctrl.A, 1, Len(ctrl.v_below_rated)),
                        ctrl.B_tau)

\* a tuned state with three above-rated points where the fit changes the
\* pitch-loop gains
C8_Witness ==
    /\ pc = "tuned"
    /\ Len(StoredAbove) = 3
    /\ ctrl.pc_gain_schedule #
           RefGains(AsReal(ctrl.zeta_pc), AsReal(ctrl.omega_pc),
                    StoredApc, ctrl.B_beta)
    /\ \A i \in 1..3 : IsFinite(ctrl.pc_gain_schedule.Kp[i])

---------------------------------------------------------------------------
(* Properties of the constructor (spec 6, 8). *)

\* the defaults as documented: 0, 90 degrees in radians, 1.0, 0.001,
\* 0.62831850001, 0.75
DocumentedDefault(key) ==
    CASE key = "min_pitch"     -> PyNum(RInt(0))
      [] key = "max_pitch"     -> PyNum(Rat(90 * PiNum, 180 * PiDen))
      [] key = "ss_vsgain"     -> PyNum(RInt(1))
      [] key = "ss_pcgain"     -> PyNum(Rat(1, 1000))
      [] key = "ss_cornerfreq" -> PyDec(<<6, 2, 8, 3, 1, 8, 5, 0, 0, 0, 1>>)
      [] key = "ps_percent"    -> PyNum(Rat(3, 4))

UnsetZeroOrFalse(x) == x = PyNone \/ x = PyNum(Zero) \/ x = PyBool(FALSE)

---------------------------------------------------------------------------
(* Properties of peak shaving (spec 4.4, 8). *)

\* Tmax = ps_percent * max(T) of the stored unshaved thrust
StoredTmax == RMul(AsReal(ctrl.ps_percent), NpMax(ctrl.ps.T))

\* C10: every operating point whose unshaved thrust does not exceed T_max
\* keeps pitch_min equal to the configured floor min_pitch
C10_FloorKept ==
    pc = "tuned" =>
        \A i \in DOMAIN ctrl.ps.T :
            ~RLt(StoredTmax, ctrl.ps.T[i]) =>
                ctrl.ps.pitch_min[i] = AsReal(ctrl.min_pitch)

\* the thrust coefficient of the surface at the stored operating point i
StoredUnshavedCt(i) ==
    InterpPoint(turbine, turbine.Ct, ctrl.pitch_op[i], ctrl.TSR_op[i])

\* 0.5 * rho * A * v[i]^2 with A = pi * R^2, for the stored wind speed i
StoredPressureArea(i) ==
    RMul(RMul(Rat(1, 2), RInt(turbine.rho)),
         RMul(RMul(pi, RInt(turbine.rotor_radius * turbine.rotor_radius)),
              RInt(ctrl.ps.v[i] * ctrl.ps.v[i])))

\* C11: peak shaving uses the one ceiling T_max = ps_percent * max(T); the
\* stored shaved thrust is min(T[i], T_max) at every point; a point with
\* T[i] > T_max has its Ct_op replaced by T_max / (0.5*rho*A*v[i]^2), every
\* other point keeps its unshaved thrust and Ct_op; ps.T holds the unshaved
\* thrust; with ps_percent = 1 the shaved thrust equals the unshaved one
C11_ShavedThrust ==
    pc = "tuned" =>
        /\ \A i \in DOMAIN ctrl.ps.T :
            /\ ctrl.ps.T[i] = RMul(StoredPressureArea(i), StoredUnshavedCt(i))
            /\ ctrl.ps.Tshaved[i] = RMin(ctrl.ps.T[i], StoredTmax)
            /\ IF RLt(StoredTmax, ctrl.ps.T[i])
               THEN /\ ctrl.ps.Tshaved[i] = StoredTmax
                    /\ ctrl.ps.Ct_op[i] = RDiv(StoredTmax, StoredPressureArea(i))
               ELSE /\ ctrl.ps.Tshaved[i] = ctrl.ps.T[i]
                    /\ ctrl.ps.Ct_op[i] = StoredUnshavedCt(i)
        /\ DOMAIN ctrl.ps.Tshaved = DOMAIN ctrl.ps.T
        /\ ctrl.ps_percent = PyNum(One) => ctrl.ps.Tshaved = ctrl.ps.T

\* a tuned controller with a point above the ceiling and a point below it
C11_Witness ==
    /\ pc = "tuned"
    /\ \E i, j \in DOMAIN ctrl.ps.T :
        /\ RLt(StoredTmax, ctrl.ps.T[i])
        /\ RLt(ctrl.ps.T[j], StoredTmax)
        /\ ctrl.ps.Tshaved[i] = StoredTmax
        /\ ctrl.ps.Tshaved[j] = ctrl.ps.T[j]
        /\ ctrl.ps.Ct_op[i] # StoredUnshavedCt(i)


---------------------------------------------------------------------------
(* Independence of tuning runs (spec 5). *)

\* the Controller as its constructor leaves it for the script's dictionary
FreshController == ControllerInit(params)

\* the attributes tune_controller leaves on a freshly constructed Controller
\* of the same configuration, for the turbine of the latest call
FreshResults == TuneAttributes(FreshController, turbine)

\* the results the claim lists
ResultNames ==
    {"v", "TSR_op", "Cp_op", "pitch_op", "A", "B_tau", "B_beta",
     "pc_gain_schedule", "vs_gain_schedule", "vs_rgn2K", "vs_refspd",
     "vs_minspd", "ps"}

\* C12: after tune_controller returns, on a Controller tuned before or not,
\* the stored results are those the call leaves on a freshly constructed
\* Controller of the same configuration and turbine; the configuration
\* fields are as the constructor left them, and the turbine is the one handed
\* in
C12_FunctionOfInputs ==
    pc = "tuned" =>
        /\ ResultNames \subseteq DOMAIN ctrl
        /\ ctrl = FreshResults @@ FreshController
        /\ \A k \in DOMAIN FreshController : ctrl[k] = FreshController[k]
        /\ DOMAIN FreshResults \cap DOMAIN FreshController = {}
        /\ turbine \in Turbines

\* a Controller tuned a second time, for a turbine whose trajectory has
\* fewer points than the longest trajectory the model produces
C12_Witness ==
    /\ pc = "tuned"
    /\ runs = 2
    /\ Len(ctrl.v) < 5
    /\ ctrl.ps = FreshResults.ps

---------------------------------------------------------------------------
(* Inversion of the thrust-coefficient slice (spec 4.4, 7). *)

\* the thrust-coefficient slice at the stored tip-speed ratio i
StoredCtSlice(i) == InterpSlice(turbine, turbine.Ct, ctrl.TSR_op[i])

FirstGridPitch == PitchGrid(turbine)[1]

LastGridPitch == PitchGrid(turbine)[Len(PitchGrid(turbine))]

\* C13: the inversion of the thrust-coefficient slice at a ceiling outside
\* the slice's range gives the first grid pitch below the slice minimum and
\* the last grid pitch above the slice maximum, and every stored pitch_min
\* lies between the first and the last grid pitch
C13_InversionSaturates ==
    pc = "tuned" =>
        \A i \in DOMAIN ctrl.ps.pitch_min :
            /\ RLt(ctrl.ps.Ct_max[i], NpMin(StoredCtSlice(i)))
                   => ctrl.ps.pitch_min[i] = FirstGridPitch
            /\ RLt(NpMax(StoredCtSlice(i)), ctrl.ps.Ct_max[i])
                   => ctrl.ps.pitch_min[i] = LastGridPitch
            /\ RLe(FirstGridPitch, ctrl.ps.pitch_min[i])
            /\ RLe(ctrl.ps.pitch_min[i], LastGridPitch)
            /\ PitchMinAt(PitchGrid(turbine), StoredCtSlice(i),
                          RSub(NpMin(StoredCtSlice(i)), One)) = FirstGridPitch
            /\ PitchMinAt(PitchGrid(turbine), StoredCtSlice(i),
                          RAdd(NpMax(StoredCtSlice(i)), One)) = LastGridPitch

\* a tuned controller with a ceiling below the minimum of its slice
C13_Witness ==
    /\ pc = "tuned"
    /\ \E i \in DOMAIN ctrl.ps.pitch_min :
        /\ RLt(ctrl.ps.Ct_max[i], NpMin(StoredCtSlice(i)))
        /\ ctrl.ps.pitch_min[i] = FirstGridPitch
        /\ FirstGridPitch # LastGridPitch

---------------------------------------------------------------------------
(* Properties of the parameter file (spec 6). *)

\* the count a table-length line holds
CountOf(line) == line[1].val

\* the number of entries of a table row
EntriesOf(row) == RInt(Len(row))

\* C14: in a file written after a successful tune_controller, PC_GS_n is the
\* entry count of PC_GS_angles, PC_GS_KP, PC_GS_KI, PC_GS_KD and PC_GS_TF and
\* the number of above-rated points; WE_FOPoles_N is the entry count of
\* WE_FOPoles_v and WE_FOPoles and the number of all points; PS_BldPitchMin_N
\* is the entry count of PS_WindSpeeds and PS_BldPitchMin
C14_TableLengths ==
    (pc = "written" /\ file.closed /\ runs >= 1) =>
        /\ \A row \in {"PC_GS_angles", "PC_GS_KP", "PC_GS_KI", "PC_GS_KD",
                       "PC_GS_TF"} :
               EntriesOf(file[row]) = CountOf(file.PC_GS_n)
        /\ CountOf(file.PC_GS_n)
               = RInt(Len(ctrl.v) - Len(ctrl.v_below_rated))
        /\ \A row \in {"WE_FOPoles_v", "WE_FOPoles"} :
               EntriesOf(file[row]) = CountOf(file.WE_FOPoles_N)
        /\ CountOf(file.WE_FOPoles_N) = RInt(Len(ctrl.v))
        /\ \A row \in {"PS_WindSpeeds", "PS_BldPitchMin"} :
               EntriesOf(file[row]) = CountOf(file.PS_BldPitchMin_N)
        /\ \A row \in DOMAIN file \ {"exists", "closed"} :
               \A i \in DOMAIN file[row] : file[row][i].kind = "number"

\* a written file whose pitch table has two entries per row and whose other
\* tables have more
C14_Witness ==
    /\ pc = "written"
    /\ file.closed
    /\ runs >= 1
    /\ CountOf(file.PC_GS_n) = RInt(2)
    /\ Len(file.PC_GS_KP) = 2
    /\ Len(file.WE_FOPoles) > 2
    /\ Len(file.PS_BldPitchMin) = Len(file.WE_FOPoles)

---------------------------------------------------------------------------
(* A turbine without above-rated operating points (spec 7). *)

\* v_rated + 0.5 >= v_max
NoAboveRatedPoint(t) == t.v_rated + Step >= t.v_max

\* C15: a tune_controller call for a turbine with v_rated + 0.5 >= v_max
\* raises at the first above-rated tip-speed ratio and leaves every
\* attribute of the controller as it was: none created, none changed
C15_FailedCallStoresNothing ==
    [][(/\ pc \in {"constructed", "tuned", "tune_error"}
        /\ pc' \in {"tuned", "tune_error"}
        /\ NoAboveRatedPoint(turbine'))
       => (/\ pc' = "tune_error"
           /\ TuneRaises(turbine') = "IndexError"
           /\ Len(VAboveRated(turbine')) = 0
           /\ DOMAIN ctrl' = DOMAIN ctrl
           /\ ctrl' = ctrl
           /\ runs' = runs)]_vars

\* a failed call for such a turbine on a controller that holds the results of
\* an earlier run
C15_Witness ==
    /\ pc = "tune_error"
    /\ NoAboveRatedPoint(turbine)
    /\ runs = 1
    /\ ResultNames \subseteq DOMAIN ctrl
    /\ Len(ctrl.v) > Len(VBelowRated(turbine))
    /\ Len(ctrl.pc_gain_schedule.Kp) > 0
    /\ ctrl.ps.v = ctrl.v

===========================================================================
